---------------------------- MODULE Spec2Model ----------------------------
(***************************************************************************)
(* A model of the ioctl request-code library (src/src/lib.rs with the two  *)
(* platform modules src/src/platform/linux.rs and src/src/platform/bsd.rs).*)
(*                                                                         *)
(* A u32 is modelled as the set of its one-bits, a subset of 0..31, since  *)
(* request codes use bit 31 and the operations on them are shifts and ORs. *)
(* Byte counts (usize), file descriptors, argument words and the syscall's *)
(* c_int result are integers.                                              *)
(***************************************************************************)
EXTENDS Integers, FiniteSets, Sequences, TLC

VARIABLES
    platform,   \* the layout selected by cfg at build time
    abi,        \* the type of libc::ioctl's request parameter on the target
    h,          \* the handle a constructor returned
    r,          \* the handle obtained from h by re-marking operations
    made,       \* the constructor call that made h: its name and inputs
    last,       \* the record of the last operation: inputs and outcome
    errno       \* the platform's last-error code

vars == <<platform, abi, h, r, made, last, errno>>

---------------------------------------------------------------------------
(* Bounds and input sets *)

\* file descriptors the caller may hold: 3..MaxFd
MaxFd == 4

Platforms == {"generic14", "generic13", "bsd"}
\* c_ulong on glibc Linux and the BSDs, c_int on musl and Android
Abis == {"c_ulong", "c_int"}

U8s == {86, 255}
Nrs == {0, 255}
\* sizes around the platform maximum and around the 14-bit field's capacity
Sizes == {0, 104, 8191, 8192, 16383, 16384}
Fds == 3..MaxFd
\* argument words: a direct scalar value, an address
ArgWords == {5, 4096}
\* what the syscall collaborator may return, and the error code it may set
SyscallReturns == {-2, -1, 0, 7}
Errnos == {25}

Markers == {"NoArgs", "*mut T", "*const T", "T"}
SizedMarkers == Markers \ {"NoArgs"}

---------------------------------------------------------------------------
(* u32 words as bit sets *)

Pow2(n) == 2 ^ n

\* the bits of 0 <= n < 2^31, truncated to 32 bits as `n as u32` does
ToBits(n) == {i \in 0..30 : (n \div Pow2(i)) % 2 = 1}

\* u32 `<<` with a shift below 32: bits shifted past bit 31 are lost
Shl(w, k) == {i + k : i \in {j \in w : j + k < 32}}

\* u32 `|`
Or(a, b) == a \cup b

\* the value of bits [lo, hi) of w, as a bit set
Field(w, lo, hi) == {i - lo : i \in {j \in w : lo <= j /\ j < hi}}

\* legacy codes: 0x5401, one with all size bits set, one with all bits set
RawCodes == {ToBits(21505), 16..29, 0..31}

---------------------------------------------------------------------------
(* platform/linux.rs and platform/bsd.rs *)

_IOC_SIZEBITS == IF platform = "generic13" THEN 13 ELSE 14

_IOC_NRBITS == 8
_IOC_TYPEBITS == 8

_IOC_NRSHIFT == 0
_IOC_TYPESHIFT == _IOC_NRSHIFT + _IOC_NRBITS
_IOC_SIZESHIFT == _IOC_TYPESHIFT + _IOC_TYPEBITS
\* mutant: the direction shift of the 14-bit layout on every architecture
_IOC_DIRSHIFT_fixed14 == _IOC_SIZESHIFT + 14
_IOC_DIRSHIFT == _IOC_SIZESHIFT + _IOC_SIZEBITS

IOCPARM_SHIFT == 13

\* mutant: the maximum taken from the width of the size field
linux_MAX_ARG_SIZE_sizebits == Pow2(_IOC_SIZEBITS) - 1
linux_MAX_ARG_SIZE == Pow2(13) - 1
\* mutant: a 14-bit maximum on the 13-bit BSD size field
bsd_MAX_ARG_SIZE_14bit == Pow2(14) - 1
bsd_MAX_ARG_SIZE == Pow2(IOCPARM_SHIFT) - 1

MAX_ARG_SIZE ==
    IF platform = "bsd" THEN bsd_MAX_ARG_SIZE ELSE linux_MAX_ARG_SIZE

\* IOC_VOID = 0x20000000, IOC_OUT = 0x40000000, IOC_IN = 0x80000000
bsd_IOC_VOID == {29}
bsd_IOC_OUT == {30}
bsd_IOC_IN == {31}

platform_IOC_NONE ==
    IF platform = "bsd" THEN bsd_IOC_VOID
    ELSE IF platform = "generic13" THEN ToBits(1) ELSE ToBits(0)

\* mutant: the generic read and write values exchanged (read = 1)
platform_IOC_READ_swapped ==
    IF platform = "bsd" THEN bsd_IOC_OUT ELSE ToBits(1)

platform_IOC_READ ==
    IF platform = "bsd" THEN bsd_IOC_OUT ELSE ToBits(2)

platform_IOC_WRITE ==
    IF platform = "bsd" THEN bsd_IOC_IN
    ELSE IF platform = "generic13" THEN ToBits(4) ELSE ToBits(1)

\* mutant: the type shifted like the number, `ty << _IOC_NRSHIFT`
linux_IOC_type_unshifted(dir, ty, nr, size) ==
    Or(Or(Or(Shl(dir, _IOC_DIRSHIFT), Shl(ty, _IOC_NRSHIFT)),
          Shl(nr, _IOC_NRSHIFT)),
       Shl(size, _IOC_SIZESHIFT))

linux_IOC(dir, ty, nr, size) ==
    Or(Or(Or(Shl(dir, _IOC_DIRSHIFT), Shl(ty, _IOC_TYPESHIFT)),
          Shl(nr, _IOC_NRSHIFT)),
       Shl(size, _IOC_SIZESHIFT))

bsd_IOC(dir, group, num, len) ==
    Or(Or(Or(dir, Shl(len, 16)), Shl(group, 8)), num)

platform_IOC(dir, ty, nr, size) ==
    IF platform = "bsd" THEN bsd_IOC(dir, ty, nr, size)
    ELSE linux_IOC(dir, ty, nr, size)

---------------------------------------------------------------------------
(* lib.rs: Dir *)

_IOC_NONE == platform_IOC_NONE
_IOC_READ == platform_IOC_READ
_IOC_WRITE == platform_IOC_WRITE
\* mutant: the read-write constant of the 14/2 layout, 3, on every platform
_IOC_READ_WRITE_literal3 == ToBits(3)
_IOC_READ_WRITE == Or(platform_IOC_READ, platform_IOC_WRITE)
IOC_VOID == _IOC_NONE

Dirs == {_IOC_NONE, _IOC_READ, _IOC_WRITE, _IOC_READ_WRITE}

\* mutant: only `none | other` is refused, not `other | none`
bitor_panics_onesided(self, rhs) ==
    self = _IOC_NONE /\ rhs # _IOC_NONE

\* mutant: `|` refuses none on either side, `none | none` included
bitor_panics_any_none(self, rhs) ==
    self = _IOC_NONE \/ rhs = _IOC_NONE

\* the condition under which `|` panics
bitor_panics(self, rhs) ==
    \/ (self = _IOC_NONE /\ rhs # _IOC_NONE)
    \/ (self # _IOC_NONE /\ rhs = _IOC_NONE)

bitor(self, rhs) ==
    IF bitor_panics(self, rhs)
    THEN [status |-> "panic"]
    ELSE [status |-> "ok", dir |-> Or(self, rhs)]

---------------------------------------------------------------------------
(* lib.rs: Ioctl and its constructors *)

NoHandle == [request |-> {}, marker |-> "-"]

\* mutant: a legacy code's size field clamped to 13 bits
from_raw_clamped(request, marker) ==
    [request |-> request \ {29}, marker |-> marker]

from_raw(request, marker) == [request |-> request, marker |-> marker]

\* size_of::<c_int>()
SizeOfCInt == 4

\* mutant: the assertion off by one, `size < MAX_ARG_SIZE`
_IOC_strict(dir, ty, nr, size, marker) ==
    IF ~(size < MAX_ARG_SIZE)
    THEN [status |-> "panic"]
    ELSE [status |-> "ok",
          handle |-> from_raw(platform_IOC(dir, ToBits(ty), ToBits(nr),
                                           ToBits(size)), marker)]

_IOC(dir, ty, nr, size, marker) ==
    IF ~(size <= MAX_ARG_SIZE)
    THEN [status |-> "panic"]
    ELSE [status |-> "ok",
          handle |-> from_raw(platform_IOC(dir, ToBits(ty), ToBits(nr),
                                           ToBits(size)), marker)]

\* mutant: a literal 0 as the direction of a no-argument code
_IO_zero_dir(ty, nr) == _IOC(ToBits(0), ty, nr, 0, "NoArgs")
_IO(ty, nr) == _IOC(_IOC_NONE, ty, nr, 0, "NoArgs")

\* mutant: the const block left out, the check left to _IOC at run time
const_assert_off(sizeT) == TRUE

\* the `const { assert!(size_of::<T>() <= platform::MAX_ARG_SIZE) }` block
const_assert(sizeT) == sizeT <= MAX_ARG_SIZE

_IOR(ty, nr, sizeT) ==
    IF ~const_assert(sizeT) THEN [status |-> "build_error"]
    ELSE _IOC(_IOC_READ, ty, nr, sizeT, "*mut T")

_IOW(ty, nr, sizeT) ==
    IF ~const_assert(sizeT) THEN [status |-> "build_error"]
    ELSE _IOC(_IOC_WRITE, ty, nr, sizeT, "*const T")

_IOWR(ty, nr, sizeT) ==
    IF ~const_assert(sizeT) THEN [status |-> "build_error"]
    ELSE _IOC(_IOC_READ_WRITE, ty, nr, sizeT, "*mut T")

\* mutant: the write direction in place of IOC_VOID
_IOWINT_write(group, nr) == _IOC(_IOC_WRITE, group, nr, SizeOfCInt, "T")
_IOWINT(group, nr) == _IOC(IOC_VOID, group, nr, SizeOfCInt, "T")

---------------------------------------------------------------------------
(* lib.rs: re-marking and the accessor *)

\* mutant: re-marking rebuilds the code with the size field cleared
with_arg_resized(self, marker2) ==
    [request |-> self.request \ (16..28), marker |-> marker2]

with_arg(self, marker2) == [request |-> self.request, marker |-> marker2]

with_direct_arg(self) == with_arg(self, "T")

cast_mut(self) == with_arg(self, "*mut T")

cast_const(self) == with_arg(self, "*const T")

request(self) == self.request

---------------------------------------------------------------------------
(* lib.rs: invocation *)

\* mutant: the code narrowed to 16 bits on the way to the syscall
request_as_truncated(req, ty) ==
    [type |-> ty, bits |-> Field(req, 0, 16)]

\* `self.request as _`: the u32 converted to the request parameter's type;
\* c_ulong zero-extends, c_int keeps the 32-bit pattern
request_as(req, ty) ==
    IF ty = "c_ulong"
    THEN [type |-> "c_ulong", bits |-> req]
    ELSE [type |-> "c_int", bits |-> Field(req, 0, 32)]

\* mutant: the descriptor passed again where the placeholder belongs
ioctl_noargs_call_nonzero(self, fd) ==
    [fd |-> fd, request |-> [type |-> abi, bits |-> self.request],
     arg |-> fd]

\* the arguments of libc::ioctl in Ioctl<NoArgs>::ioctl
ioctl_noargs_call(self, fd) ==
    [fd |-> fd, request |-> request_as(self.request, abi), arg |-> 0]

\* the arguments of libc::ioctl in Ioctl<T>::ioctl
ioctl_call(self, fd, arg) ==
    [fd |-> fd, request |-> request_as(self.request, abi), arg |-> arg]

\* mutant: every negative return value taken for a failure
ioctl_result_negative(res, err) ==
    IF res < 0
    THEN [tag |-> "Err", code |-> err]
    ELSE [tag |-> "Ok", value |-> res]

\* the translation of the syscall's return value; err is last_os_error()
ioctl_result(res, err) ==
    IF res = -1
    THEN [tag |-> "Err", code |-> err]
    ELSE [tag |-> "Ok", value |-> res]

---------------------------------------------------------------------------
(* The state machine: a client that declares one handle, as a `const`      *)
(* item or at run time, and then re-marks and invokes it.                  *)

Init ==
    /\ platform \in Platforms
    /\ abi \in Abis
    /\ h = NoHandle
    /\ r = NoHandle
    /\ made = [op |-> "none"]
    /\ last = [op |-> "start", status |-> "ok"]
    /\ errno = 0

\* a panic or a failed build ends the program
Running == last.status = "ok"

Declared == h # NoHandle

\* a constructor's outcome: the handle on success, the end of the program else
Constructed(rec, res) ==
    /\ last' = rec @@ [status |-> res.status]
    /\ h' = IF res.status = "ok" THEN res.handle ELSE NoHandle
    /\ r' = h'
    /\ made' = rec
    /\ UNCHANGED <<platform, abi, errno>>

Call_bitor ==
    /\ Running /\ ~Declared
    /\ \E a \in Dirs, b \in Dirs :
          LET res == bitor(a, b) IN
          last' = [op |-> "bitor", a |-> a, b |-> b, status |-> res.status,
                   ret |-> IF res.status = "ok" THEN res.dir ELSE {}]
    /\ UNCHANGED <<platform, abi, h, r, made, errno>>

Call_IOC ==
    /\ Running /\ ~Declared
    /\ \E dir \in Dirs, ty \in U8s, nr \in Nrs, size \in Sizes, m \in Markers :
          Constructed([op |-> "_IOC", dir |-> dir, ty |-> ty, nr |-> nr,
                       size |-> size],
                      _IOC(dir, ty, nr, size, m))

Call_IO ==
    /\ Running /\ ~Declared
    /\ \E ty \in U8s, nr \in Nrs :
          Constructed([op |-> "_IO", ty |-> ty, nr |-> nr, size |-> 0],
                      _IO(ty, nr))

Call_IOR ==
    /\ Running /\ ~Declared
    /\ \E ty \in U8s, nr \in Nrs, size \in Sizes :
          Constructed([op |-> "_IOR", ty |-> ty, nr |-> nr, size |-> size],
                      _IOR(ty, nr, size))

Call_IOW ==
    /\ Running /\ ~Declared
    /\ \E ty \in U8s, nr \in Nrs, size \in Sizes :
          Constructed([op |-> "_IOW", ty |-> ty, nr |-> nr, size |-> size],
                      _IOW(ty, nr, size))

Call_IOWR ==
    /\ Running /\ ~Declared
    /\ \E ty \in U8s, nr \in Nrs, size \in Sizes :
          Constructed([op |-> "_IOWR", ty |-> ty, nr |-> nr, size |-> size],
                      _IOWR(ty, nr, size))

Call_IOWINT ==
    /\ Running /\ ~Declared
    /\ \E ty \in U8s, nr \in Nrs :
          Constructed([op |-> "_IOWINT", ty |-> ty, nr |-> nr,
                       size |-> SizeOfCInt],
                      _IOWINT(ty, nr))

Call_from_raw ==
    /\ Running /\ ~Declared
    /\ \E c \in RawCodes, m \in Markers :
          Constructed([op |-> "from_raw", code |-> c],
                      [status |-> "ok", handle |-> from_raw(c, m)])

\* a re-marking operation applied to r; its receiver is passed by value
Remarked(op, res) ==
    /\ last' = [op |-> op, status |-> "ok", self |-> r]
    /\ r' = res
    /\ UNCHANGED <<platform, abi, h, made, errno>>

\* T2 is Sized, so NoArgs is not a possible target
Call_with_arg ==
    /\ Running /\ Declared
    /\ \E m \in SizedMarkers : Remarked("with_arg", with_arg(r, m))

Call_with_direct_arg ==
    /\ Running /\ Declared
    /\ r.marker = "*const T"
    /\ Remarked("with_direct_arg", with_direct_arg(r))

Call_cast_mut ==
    /\ Running /\ Declared
    /\ r.marker = "*const T"
    /\ Remarked("cast_mut", cast_mut(r))

Call_cast_const ==
    /\ Running /\ Declared
    /\ r.marker = "*mut T"
    /\ Remarked("cast_const", cast_const(r))

\* Ioctl<NoArgs>::ioctl: one call of the collaborator, which returns res and,
\* when it fails, sets the last-error code
Call_ioctl_noargs ==
    /\ Running /\ Declared
    /\ r.marker = "NoArgs"
    /\ \E fd \in Fds, res \in SyscallReturns, e \in Errnos :
          /\ errno' = IF res = -1 THEN e ELSE errno
          /\ last' = [op |-> "ioctl_noargs", status |-> "ok", fd |-> fd,
                      calls |-> <<ioctl_noargs_call(r, fd)>>,
                      res |-> res, result |-> ioctl_result(res, errno')]
    /\ UNCHANGED <<platform, abi, h, r, made>>

\* mutant: the syscall called a second time after a failure
Call_ioctl_retry ==
    /\ Running /\ Declared
    /\ r.marker \in SizedMarkers
    /\ \E fd \in Fds, arg \in ArgWords, res \in SyscallReturns, e \in Errnos :
          /\ errno' = IF res = -1 THEN e ELSE errno
          /\ last' = [op |-> "ioctl", status |-> "ok", fd |-> fd, arg |-> arg,
                      calls |-> IF res = -1
                                THEN <<ioctl_call(r, fd, arg),
                                       ioctl_call(r, fd, arg)>>
                                ELSE <<ioctl_call(r, fd, arg)>>,
                      res |-> res, result |-> ioctl_result(res, errno')]
    /\ UNCHANGED <<platform, abi, h, r, made>>

\* Ioctl<T>::ioctl
Call_ioctl ==
    /\ Running /\ Declared
    /\ r.marker \in SizedMarkers
    /\ \E fd \in Fds, arg \in ArgWords, res \in SyscallReturns, e \in Errnos :
          /\ errno' = IF res = -1 THEN e ELSE errno
          /\ last' = [op |-> "ioctl", status |-> "ok", fd |-> fd, arg |-> arg,
                      calls |-> <<ioctl_call(r, fd, arg)>>,
                      res |-> res, result |-> ioctl_result(res, errno')]
    /\ UNCHANGED <<platform, abi, h, r, made>>

Next ==
    \/ Call_bitor
    \/ Call_IOC
    \/ Call_IO
    \/ Call_IOR
    \/ Call_IOW
    \/ Call_IOWR
    \/ Call_IOWINT
    \/ Call_from_raw
    \/ Call_with_arg
    \/ Call_with_direct_arg
    \/ Call_cast_mut
    \/ Call_cast_const
    \/ Call_ioctl_noargs
    \/ Call_ioctl

Spec == Init /\ [][Next]_vars

---------------------------------------------------------------------------
(* The layouts as the specification states them, written out per platform  *)
(* and independently of the definitions above.                             *)

\* the raw none / read / write values: 0, 2, 1 on the generic 14/2 layout,
\* 1, 2, 4 on the generic 13/3 layout, 0x20000000, 0x40000000, 0x80000000
\* on BSD
StatedNone ==
    CASE platform = "generic14" -> {}
      [] platform = "generic13" -> {0}
      [] platform = "bsd" -> {29}

StatedRead ==
    CASE platform = "generic14" -> {1}
      [] platform = "generic13" -> {1}
      [] platform = "bsd" -> {30}

StatedWrite ==
    CASE platform = "generic14" -> {0}
      [] platform = "generic13" -> {2}
      [] platform = "bsd" -> {31}

StatedDirs ==
    {StatedNone, StatedRead, StatedWrite, StatedRead \cup StatedWrite}

\* the width of the size field
StatedSizeWidth ==
    CASE platform = "generic14" -> 14
      [] platform = "generic13" -> 13
      [] platform = "bsd" -> 13

\* the operations that take a byte count
SizedOps == {"_IOC", "_IOR", "_IOW", "_IOWR"}

---------------------------------------------------------------------------
(* C1: on every platform layout and for every pair of direction values a,  *)
(* b among none, read, write and read-write, `a | b` panics if and only if *)
(* exactly one of a, b is the platform's none value, in either order, and  *)
(* otherwise returns the bitwise OR of the two raw values.                 *)
C1_BitOrPanicsIffOneNone ==
    last.op = "bitor" =>
        /\ last.a \in StatedDirs /\ last.b \in StatedDirs
        /\ (last.status = "panic")
              <=> ((last.a = StatedNone) # (last.b = StatedNone))
        /\ last.status # "panic" =>
              /\ last.status = "ok"
              /\ \A i \in 0..31 :
                    i \in last.ret <=> (i \in last.a \/ i \in last.b)

\* read | none on the layout whose none value is 1
C1_Witness ==
    /\ platform = "generic13"
    /\ last.op = "bitor"
    /\ last.a = {1} /\ last.b = {0}
    /\ last.status = "panic"

(* C2: for every direction, type and number, the codec _IOC yields a       *)
(* handle when size equals the platform maximum, and fails by assertion,   *)
(* yielding no handle, when size is the maximum plus one or larger.        *)
C2_IOCSizeBoundary ==
    last.op = "_IOC" =>
        /\ last.size = MAX_ARG_SIZE =>
              last.status = "ok" /\ h # NoHandle /\ h.marker \in Markers
        /\ last.size >= MAX_ARG_SIZE + 1 =>
              last.status = "panic" /\ h = NoHandle /\ r = NoHandle

\* the codec called with one byte over the maximum
C2_Witness ==
    /\ last.op = "_IOC"
    /\ last.size = MAX_ARG_SIZE + 1
    /\ last.dir = StatedRead
    /\ last.status = "panic"
    /\ h = NoHandle

(* C3: on the generic layout, for every direction value, type, number and  *)
(* accepted size, the code has bits [0:8) = nr, [8:16) = type,             *)
(* [16:16+S) = size and [16+S:32) = the raw direction value, with S = 14   *)
(* by default and 13 on mips/sparc/powerpc; no field spills into another   *)
(* and no direction bit is shifted out of the word.                        *)
C3_GenericLayoutFields ==
    (platform # "bsd" /\ last.op = "_IOC" /\ last.status = "ok") =>
        /\ h.request \subseteq 0..31
        /\ Field(h.request, 0, 8) = ToBits(last.nr)
        /\ Field(h.request, 8, 16) = ToBits(last.ty)
        /\ Field(h.request, 16, 16 + StatedSizeWidth) = ToBits(last.size)
        /\ Field(h.request, 16 + StatedSizeWidth, 32) = last.dir
        /\ last.dir \in StatedDirs

\* read-write (6) with the largest size on the 13/3 layout
C3_Witness ==
    /\ platform = "generic13"
    /\ last.op = "_IOC" /\ last.status = "ok"
    /\ last.dir = {1, 2} /\ last.size = 8191
    /\ last.ty = 255 /\ last.nr = 255
    /\ h.request = (0..28) \cup {30, 31}

(* C4: on the BSD layout, for every direction value, group, number and     *)
(* accepted size, the code has bits [0:8) = num, [8:16) = group,           *)
(* [16:29) = size, and its top three bits are the direction pattern        *)
(* (0x20000000 none, 0x40000000 read, 0x80000000 write, 0xC0000000 both);  *)
(* the size field never overlaps the direction bits.                       *)
C4_BsdLayoutFields ==
    (platform = "bsd" /\ last.op = "_IOC" /\ last.status = "ok") =>
        /\ h.request \subseteq 0..31
        /\ Field(h.request, 0, 8) = ToBits(last.nr)
        /\ Field(h.request, 8, 16) = ToBits(last.ty)
        /\ Field(h.request, 16, 29) = ToBits(last.size)
        /\ {i \in h.request : i >= 29} = last.dir
        /\ last.dir \in {{29}, {30}, {31}, {30, 31}}

\* none (0x20000000) with the largest size: bit 29 is the direction's alone
C4_Witness ==
    /\ platform = "bsd"
    /\ last.op = "_IOC" /\ last.status = "ok"
    /\ last.dir = {29} /\ last.size = 8191
    /\ h.request = (16..29) \cup ToBits(last.ty * 256 + last.nr)

(* C5 as stated: on every platform layout the largest size the codec and   *)
(* the constructors accept is 2^sizeWidth - 1, with sizeWidth = 14 on the  *)
(* default generic layout and 13 on the generic 13/3 layout and on BSD.    *)
C5_Original ==
    last.op \in SizedOps =>
        (last.status = "ok" <=> last.size <= Pow2(StatedSizeWidth) - 1)

(* C5, amended: on every platform layout the largest size the codec and    *)
(* the constructors accept is 2^13 - 1 = 8191; that is the capacity of the *)
(* size field where it is 13 bits wide (generic 13/3, BSD) and less than   *)
(* the capacity 2^14 - 1 of the 14-bit field of the default layout.        *)
C5_MaxArgSizeIs8191 ==
    /\ last.op \in SizedOps => (last.status = "ok" <=> last.size <= 8191)
    /\ MAX_ARG_SIZE = 8191
    /\ StatedSizeWidth = 13 => MAX_ARG_SIZE = Pow2(StatedSizeWidth) - 1
    /\ StatedSizeWidth = 14 => MAX_ARG_SIZE < Pow2(StatedSizeWidth) - 1

\* 8192 bytes fit the 14-bit field and are refused
C5_Witness ==
    /\ platform = "generic14"
    /\ last.op \in SizedOps
    /\ last.size = 8192
    /\ last.status # "ok"

(* C6 as stated: _IOWINT(group, nr) returns a handle whose code carries    *)
(* the write direction, equal to encode(write, group, nr, size of a C      *)
(* int), and whose marker is the direct scalar integer.                    *)
C6_Original ==
    (platform = "bsd" /\ last.op = "_IOWINT" /\ last.status = "ok") =>
        /\ h.request = platform_IOC(StatedWrite, ToBits(last.ty),
                                    ToBits(last.nr), ToBits(4))
        /\ h.marker = "T"

(* C6, amended: _IOWINT(group, nr) returns, for every group and nr, a      *)
(* handle whose code carries the none direction (IOC_VOID), equal to       *)
(* encode(none, group, nr, size of a C int), and whose marker is the       *)
(* direct scalar integer.                                                  *)
C6_IOWINTCarriesVoid ==
    last.op = "_IOWINT" =>
        /\ last.status = "ok"
        /\ h.request = platform_IOC(StatedNone, ToBits(last.ty),
                                    ToBits(last.nr), ToBits(4))
        /\ h.marker = "T"

\* on BSD the code is 0x20000000 | 4 << 16 | group << 8 | nr
C6_Witness ==
    /\ platform = "bsd"
    /\ last.op = "_IOWINT" /\ last.status = "ok"
    /\ last.ty = 86 /\ last.nr = 255
    /\ h.request = {29, 18} \cup ToBits(86 * 256 + 255)
    /\ h.marker = "T"

(* C7: for every type, number and argument size s within the platform      *)
(* maximum, _IO = encode(none, ty, nr, 0), _IOR = encode(read, ty, nr, s), *)
(* _IOW = encode(write, ty, nr, s) and _IOWR = encode(read | write, ty,    *)
(* nr, s); the direction field of a no-argument code is the platform's     *)
(* none value even where that value is not zero.                           *)
C7_RowDir ==
    CASE last.op = "_IO" -> StatedNone
      [] last.op = "_IOR" -> StatedRead
      [] last.op = "_IOW" -> StatedWrite
      [] last.op = "_IOWR" -> bitor(StatedRead, StatedWrite).dir

C7_ConstructorsMatchCodec ==
    (last.op \in {"_IO", "_IOR", "_IOW", "_IOWR"}
        /\ last.size <= MAX_ARG_SIZE) =>
        /\ last.status = "ok"
        /\ h.request = platform_IOC(C7_RowDir, ToBits(last.ty),
                                    ToBits(last.nr), ToBits(last.size))
        /\ last.op = "_IO" =>
              /\ last.size = 0
              /\ IF platform = "bsd"
                 THEN {i \in h.request : i >= 29} = StatedNone
                 ELSE Field(h.request, 16 + StatedSizeWidth, 32) = StatedNone

\* a no-argument code where none is 1: bit 29 is set
C7_Witness ==
    /\ platform = "generic13"
    /\ last.op = "_IO" /\ last.status = "ok"
    /\ 29 \in h.request
    /\ h.marker = "NoArgs"

(* C8: for both invocation operations and every integer r the syscall can  *)
(* return, the invocation returns an OS error carrying the platform's      *)
(* last-error code if and only if r = -1; for every other r, negative      *)
(* ones included, it returns success carrying r unchanged.                 *)
C8_ErrIffSentinel ==
    last.op \in {"ioctl", "ioctl_noargs"} =>
        /\ (last.result.tag = "Err") <=> (last.res = -1)
        /\ last.res = -1 => last.result = [tag |-> "Err", code |-> errno]
        /\ last.res # -1 => last.result = [tag |-> "Ok", value |-> last.res]

\* a negative result other than the sentinel, after an earlier failure
C8_Witness ==
    /\ last.op = "ioctl"
    /\ last.res = -2
    /\ last.result = [tag |-> "Ok", value |-> -2]
    /\ errno = 25

(* C9: every invocation of a no-argument handle calls the syscall          *)
(* collaborator with the caller's file descriptor, the handle's request    *)
(* code, and exactly the zero placeholder as third argument.               *)
C9_NoArgsPassesZero ==
    last.op = "ioctl_noargs" =>
        /\ r.marker = "NoArgs"
        /\ Len(last.calls) >= 1
        /\ \A i \in DOMAIN last.calls :
              /\ last.calls[i].fd = last.fd
              /\ Field(last.calls[i].request.bits, 0, 32) = r.request
              /\ last.calls[i].arg = 0

\* a no-argument BSD code (bit 29 set) invoked on descriptor 4
C9_Witness ==
    /\ last.op = "ioctl_noargs"
    /\ last.fd = 4
    /\ 29 \in r.request
    /\ last.calls[1].arg = 0

(* C10: every invocation of a handle with an argument marker calls the     *)
(* syscall collaborator with the caller's file descriptor, a request word  *)
(* whose low 32 bits are the handle's request code, and the caller's       *)
(* argument word unchanged.                                                *)
C10_ArgPassedUnchanged ==
    last.op = "ioctl" =>
        /\ r.marker \in SizedMarkers
        /\ Len(last.calls) >= 1
        /\ \A i \in DOMAIN last.calls :
              /\ last.calls[i].fd = last.fd
              /\ Field(last.calls[i].request.bits, 0, 32) = r.request
              /\ last.calls[i].arg = last.arg

\* a pointer-shaped handle whose code has bit 31 set, on a c_int target
C10_Witness ==
    /\ last.op = "ioctl"
    /\ abi = "c_int"
    /\ 31 \in r.request
    /\ r.marker = "*mut T"
    /\ last.arg = 4096
    /\ last.calls[1].arg = 4096

(* C11: each type-parameterised constructor (_IOR, _IOW, _IOWR) checks the *)
(* argument type's size against the platform maximum at build time,        *)
(* before any handle exists: no handle is produced for an over-sized type, *)
(* and no syscall invocation occurs with a code that such a constructor    *)
(* built from a size above the maximum.                                    *)
TypedOps == {"_IOR", "_IOW", "_IOWR"}

IoctlOps == {"ioctl", "ioctl_noargs"}

C11_SizeGateBeforeHandle ==
    /\ (last.op \in TypedOps /\ last.size > MAX_ARG_SIZE) =>
          /\ last.status = "build_error"
          /\ h = NoHandle /\ r = NoHandle
    /\ (made.op \in TypedOps /\ made.size > MAX_ARG_SIZE) =>
          /\ ~Declared
          /\ last.op \notin IoctlOps
    /\ (last.op \in IoctlOps /\ made.op \in TypedOps) =>
          /\ made.size <= MAX_ARG_SIZE
          /\ Len(last.calls) >= 1
          /\ \A i \in DOMAIN last.calls :
                Field(last.calls[i].request.bits, 16, 29) = ToBits(made.size)

\* a read-write constructor for a type one byte over the maximum
C11_Witness ==
    /\ last.op = "_IOWR"
    /\ last.size = MAX_ARG_SIZE + 1
    /\ last.status = "build_error"
    /\ h = NoHandle

(* C12: after any finite sequence of re-marking operations (with_arg,      *)
(* with_direct_arg, cast_mut, cast_const) the resulting handle's request   *)
(* code equals the original handle's, the original handle is unchanged,    *)
(* and none of these operations runs a size or direction check.            *)
RemarkOps == {"with_arg", "with_direct_arg", "cast_mut", "cast_const"}

C12_RemarkKeepsCode ==
    /\ [](Declared => request(r) = request(h))
    /\ [](last.op \in RemarkOps =>
             /\ last.status = "ok"
             /\ request(r) = request(last.self)
             /\ r.marker \in SizedMarkers)
    /\ [][last'.op \in RemarkOps => h' = h /\ last'.self = r]_vars

\* two casts in a row on a legacy code whose size and direction bits are
\* all set
C12_Witness ==
    /\ last.op = "cast_mut"
    /\ last.self = [request |-> 0..31, marker |-> "*const T"]
    /\ h = [request |-> 0..31, marker |-> "*mut T"]
    /\ r = h

(* C13: for every 32-bit value c, including values whose size bits exceed  *)
(* the platform maximum or whose direction bits match no valid direction,  *)
(* from_raw(c) succeeds without a size or direction check, and request()   *)
(* on the resulting handle returns exactly c.                              *)
C13_FromRawRoundTrip ==
    last.op = "from_raw" =>
        /\ last.status = "ok"
        /\ Declared
        /\ request(h) = last.code
        /\ \A i \in 0..31 : i \in request(h) <=> i \in last.code

\* all 14 bits 16..29 set: above the maximum as a size, and on the 13-bit
\* layouts a direction bit besides
C13_Witness ==
    /\ last.op = "from_raw"
    /\ last.code = 16..29
    /\ request(h) = 16..29
    /\ last.status = "ok"

(* C14: for every direction value d among none, read, write and read-write *)
(* on every platform layout, `d | d` does not fail and returns d.          *)
C14_BitOrIdempotent ==
    (last.op = "bitor" /\ last.a = last.b) =>
        /\ last.status = "ok"
        /\ last.ret = last.a

\* none | none where none is 0x20000000
C14_Witness ==
    /\ platform = "bsd"
    /\ last.op = "bitor"
    /\ last.a = {29} /\ last.b = {29}
    /\ last.ret = {29}

(* C15: on every platform layout `read | write` equals the precomputed     *)
(* read-write constant, and for all a, b among read, write and read-write  *)
(* `a | b` does not fail and equals `b | a`.                               *)
C15_NonNone == {StatedRead, StatedWrite, StatedRead \cup StatedWrite}

C15_ReadWriteAndCommutative ==
    (last.op = "bitor" /\ last.a \in C15_NonNone /\ last.b \in C15_NonNone) =>
        /\ last.status = "ok"
        /\ bitor(last.b, last.a).status = "ok"
        /\ last.ret = bitor(last.b, last.a).dir
        /\ ({last.a, last.b} = {StatedRead, StatedWrite}) =>
              /\ last.ret = _IOC_READ_WRITE
              /\ last.ret = StatedRead \cup StatedWrite

\* read | write on the 13/3 layout: 2 | 4 = 6
C15_Witness ==
    /\ platform = "generic13"
    /\ last.op = "bitor"
    /\ last.a = {1} /\ last.b = {2}
    /\ last.ret = {1, 2}

(* C16: on the generic 14-bit-size layout, encoding (read, type 'V',       *)
(* nr 0, size 104), and equally _IOR for a 104-byte type with (b'V', 0),   *)
(* yields 2 << 30 | 104 << 16 | 'V' << 8 | 0 = 0x80685600, the published   *)
(* VIDIOC_QUERYCAP value.                                                  *)

\* the u32 with the given 16-bit halves
Halves(hi, lo) == {i + 16 : i \in ToBits(hi)} \cup ToBits(lo)

\* 0x80685600 = 0x8068 : 0x5600
VIDIOC_QUERYCAP == Halves(32872, 22016)

C16_QueryCapCode ==
    (/\ platform = "generic14"
     /\ \/ last.op = "_IOC" /\ last.dir = {1}
        \/ last.op = "_IOR"
     /\ last.ty = 86 /\ last.nr = 0 /\ last.size = 104) =>
        /\ last.status = "ok"
        /\ request(h) = VIDIOC_QUERYCAP
        /\ request(h) = {31} \cup {i + 16 : i \in ToBits(104)}
                             \cup {i + 8 : i \in ToBits(86)}
        /\ request(h) = {9, 10, 12, 14, 19, 21, 22, 31}

\* const VIDIOC_QUERYCAP: Ioctl<*mut Capability> = _IOR(b'V', 0)
C16_Witness ==
    /\ platform = "generic14"
    /\ last.op = "_IOR"
    /\ last.ty = 86 /\ last.nr = 0 /\ last.size = 104
    /\ h = [request |-> VIDIOC_QUERYCAP, marker |-> "*mut T"]

(* C17: each call of an invocation operation performs exactly one call of  *)
(* the syscall collaborator and then returns; after the failure sentinel   *)
(* it does not call again; the call changes nothing of the handle or of    *)
(* the library's state, so a later invocation with the same handle passes  *)
(* the same code.                                                          *)
C17_OneCallNoRetry ==
    /\ [](last.op \in IoctlOps =>
             /\ Len(last.calls) = 1
             /\ last.status = "ok"
             /\ Field(last.calls[1].request.bits, 0, 32) = request(r))
    /\ [][last'.op \in IoctlOps =>
             /\ h' = h /\ r' = r /\ made' = made
             /\ platform' = platform /\ abi' = abi]_vars
    /\ [][(last.op \in IoctlOps /\ last'.op \in IoctlOps) =>
             last'.calls[1].request = last.calls[1].request]_vars

\* an invocation that failed: one call, an error returned
C17_Witness ==
    /\ last.op = "ioctl"
    /\ last.res = -1
    /\ Len(last.calls) = 1
    /\ last.result = [tag |-> "Err", code |-> 25]

(* C18: on each platform layout the codec is injective on its accepted     *)
(* inputs: for dir among none, read, write and read-write, type and nr in  *)
(* 0..255 and size in 0..maximum, equal codes imply equal tuples.          *)
C18_Bytes == {0, 86, 170, 255}

C18_Sizes == {sz \in Sizes \cup {1, 4, 4096, 8190} : sz <= MAX_ARG_SIZE}

C18_CodecInjective ==
    (last.op = "_IOC" /\ last.status = "ok") =>
        \A d \in StatedDirs, t \in C18_Bytes, n \in C18_Bytes,
           sz \in C18_Sizes :
            _IOC(d, t, n, sz, h.marker).handle.request = request(h) =>
                /\ d = last.dir
                /\ t = last.ty
                /\ n = last.nr
                /\ sz = last.size

\* none = 1 next to the largest size on the 13/3 layout: bits 16..29 set
C18_Witness ==
    /\ platform = "generic13"
    /\ last.op = "_IOC" /\ last.status = "ok"
    /\ last.dir = {0} /\ last.size = 8191
    /\ last.ty = 86 /\ last.nr = 0
    /\ request(h) = (16..29) \cup {9, 10, 12, 14}

===========================================================================
